---- MODULE Spec2Model ----
(***************************************************************************)
(* PGKeeper: a command-line front end that runs pg_dump, pg_restore and    *)
(* psql.  The model follows one invocation of `backup` or `restore` from   *)
(* the parsed options to the end of the process: the artifact path, the    *)
(* makedirs call, the environment and argument list handed to              *)
(* subprocess.run, the log and console messages, and the exit status of    *)
(* the Python process.  Strings are TLA+ strings and every formatting step *)
(* (str(port), strftime, os.path.join, " ".join, str(CalledProcessError))  *)
(* is computed character by character.                                     *)
(***************************************************************************)
EXTENDS Integers, Sequences, FiniteSets, TLC

VARIABLES
    pc,             \* position of the invocation
    op,             \* "backup" or "restore": the sub-command that was invoked
    inp,            \* the options click hands to the command function
    now,            \* what datetime.now() returns
    rootKind,       \* what backup_dir names on disk: "absent", "dir" or "file"
    parentWritable, \* whether a missing backup_dir can be created
    artifactKind,   \* what backup_file / backup_path names on disk
    osEnviron,      \* os.environ of the Python process
    backup_path,    \* local of backup()
    env,            \* local env of backup() / restore()
    cmd,            \* local cmd of backup() / restore()
    log,            \* calls made to logging.*: <<[level, text], ...>>
    echo,           \* calls made to click.echo
    mkdirs,         \* paths handed to os.makedirs
    spawned,        \* child processes started: <<[argv, env], ...>>
    child,          \* "none", "running", "exited" or "killed"
    status,         \* return code of the child, -1 while there is none
    exc,            \* text of the exception that left the command, "" if none
    exitCode        \* exit status of the Python process, -1 while it runs

vars == <<pc, op, inp, now, rootKind, parentWritable, artifactKind, osEnviron,
          backup_path, env, cmd, log, echo, mkdirs, spawned, child, status,
          exc, exitCode>>

(***************************************************************************)
(* Bounds and input sets                                                   *)
(***************************************************************************)
MaxExit == 3

ExitStatuses == 0..MaxExit

DefaultPort == 5432

Hosts == {"localhost", "db1"}
Ports == {DefaultPort, 15432}
Usernames == {"alice", "postgres"}
Dbnames == {"orders", "hr"}
\* "alice" is also a user name, "s3cret" occurs nowhere else
Passwords == {"s3cret", "alice"}
BackupDirs == {"./backups", "/var/bk/"}
DumpFormats == {"c", "d", "t", "p"}
BackupFiles == {"./backups/backup_orders_20240101_120000", "./dump.sql",
                "./old.sql.d", "./orders.dump", "./orders.tar"}
Kinds == {"absent", "dir", "file"}
Nows == {[Y |-> 2024, M |-> 1, D |-> 1, h |-> 12, m |-> 0, s |-> 0],
         [Y |-> 2025, M |-> 11, D |-> 30, h |-> 9, m |-> 5, s |-> 59]}
Environs == {[PATH |-> "/usr/bin"],
             [PATH |-> "/usr/bin", PGPASSWORD |-> "stale"]}
LaunchErrors == {"FileNotFoundError: [Errno 2] No such file or directory: ",
                 "PermissionError: [Errno 13] Permission denied: "}

(***************************************************************************)
(* String helpers: Python's built-ins, computed on the characters          *)
(***************************************************************************)
Range(s) == {s[i] : i \in DOMAIN s}

DigitChar(d) == SubSeq("0123456789", d + 1, d + 1)

RECURSIVE IntToStr(_)
IntToStr(n) ==
    IF n < 10 THEN DigitChar(n)
    ELSE IntToStr(n \div 10) \o DigitChar(n % 10)

RECURSIVE ZeroPad(_, _)
ZeroPad(s, w) == IF Len(s) >= w THEN s ELSE ZeroPad("0" \o s, w)

Strftime(t) ==
    ZeroPad(IntToStr(t.Y), 4) \o ZeroPad(IntToStr(t.M), 2)
        \o ZeroPad(IntToStr(t.D), 2) \o "_" \o ZeroPad(IntToStr(t.h), 2)
        \o ZeroPad(IntToStr(t.m), 2) \o ZeroPad(IntToStr(t.s), 2)

StartsWith(s, pre) == Len(s) >= Len(pre) /\ SubSeq(s, 1, Len(pre)) = pre

EndsWith(s, suf) ==
    Len(s) >= Len(suf) /\ SubSeq(s, Len(s) - Len(suf) + 1, Len(s)) = suf

Contains(s, sub) ==
    \E i \in 1..(Len(s) - Len(sub) + 1) : SubSeq(s, i, i + Len(sub) - 1) = sub

PathJoin(a, b) ==
    IF StartsWith(b, "/") THEN b
    ELSE IF a = "" \/ EndsWith(a, "/") THEN a \o b
    ELSE a \o "/" \o b

RECURSIVE Join(_, _)
Join(sep, parts) ==
    IF parts = <<>> THEN ""
    ELSE IF Len(parts) = 1 THEN parts[1]
    ELSE parts[1] \o sep \o Join(sep, Tail(parts))

ReprStr(s) == "'" \o s \o "'"

ReprList(parts) ==
    "[" \o Join(", ", [i \in DOMAIN parts |-> ReprStr(parts[i])]) \o "]"

CalledProcessErrorStr(argv, rc) ==
    "Command '" \o ReprList(argv) \o "' returned non-zero exit status "
        \o IntToStr(rc) \o "."

EnvSet(e, k, v) == [x \in DOMAIN e \cup {k} |-> IF x = k THEN v ELSE e[x]]

(***************************************************************************)
(* backup(): the artifact path                                             *)
(***************************************************************************)
FileExt(dump_format) ==
    IF dump_format = "c" THEN ".dump"
    ELSE IF dump_format = "t" THEN ".tar"
    ELSE ".sql"

\* a slip that drops the special case of the directory format
BackupPathExtAlways(p, timestamp) ==
    PathJoin(p.backup_dir,
             "backup_" \o p.dbname \o "_" \o timestamp \o FileExt(p.dump_format))

BackupPath(p, timestamp) ==
    IF p.dump_format = "d"
    THEN PathJoin(p.backup_dir, "backup_" \o p.dbname \o "_" \o timestamp)
    ELSE PathJoin(p.backup_dir,
                  "backup_" \o p.dbname \o "_" \o timestamp
                      \o FileExt(p.dump_format))

\* os.makedirs(name, exist_ok=True): "" when it succeeds, else str(e)
MakedirsError(kind, writable, name) ==
    IF kind = "dir" THEN ""
    ELSE IF kind = "file" THEN "[Errno 17] File exists: " \o ReprStr(name)
    ELSE IF writable THEN ""
    ELSE "[Errno 13] Permission denied: " \o ReprStr(name)

\* a slip that loses the `return` of the except clause
MkdirFailedFallsThrough == "plan"

\* where backup() goes after a failed makedirs
MkdirFailedNext == "done"

(***************************************************************************)
(* backup() and restore(): environment and argument list                   *)
(***************************************************************************)
InjectPassword(base, password) == EnvSet(base, "PGPASSWORD", password)

\* a slip that also hands the password on the command line
BackupCmdWithPassword(p, path) ==
    <<"pg_dump", "-h", p.host, "-p", IntToStr(p.port), "-U", p.username,
      "--password", p.password, "-F", p.dump_format>>
        \o (IF p.dump_format = "d" THEN <<>> ELSE <<"-b">>)
        \o <<"-v", "-f", path, p.dbname>>

\* a slip that asks for large objects in every format
BackupCmdAlwaysBlobs(p, path) ==
    <<"pg_dump", "-h", p.host, "-p", IntToStr(p.port), "-U", p.username,
      "-F", p.dump_format, "-b", "-v", "-f", path, p.dbname>>

BackupCmd(p, path) ==
    IF p.dump_format = "d"
    THEN <<"pg_dump", "-h", p.host, "-p", IntToStr(p.port),
           "-U", p.username, "-F", p.dump_format, "-v", "-f", path, p.dbname>>
    ELSE <<"pg_dump", "-h", p.host, "-p", IntToStr(p.port),
           "-U", p.username, "-F", p.dump_format, "-b", "-v", "-f", path,
           p.dbname>>

\* os.path.isdir
IsDir(kind) == kind = "dir"

\* a slip that looks at the extension before the shape
RestoreCmdExtensionFirst(p, isdir) ==
    IF EndsWith(p.backup_file, ".sql")
    THEN <<"psql", "-h", p.host, "-p", IntToStr(p.port), "-U", p.username,
           "-d", p.dbname, "-f", p.backup_file>>
    ELSE <<"pg_restore", "-h", p.host, "-p", IntToStr(p.port),
           "-U", p.username, "-d", p.dbname, "-v", p.backup_file>>

RestoreCmd(p, isdir) ==
    IF isdir
    THEN <<"pg_restore", "-h", p.host, "-p", IntToStr(p.port),
           "-U", p.username, "-d", p.dbname, "-v", p.backup_file>>
    ELSE IF EndsWith(p.backup_file, ".sql")
    THEN <<"psql", "-h", p.host, "-p", IntToStr(p.port), "-U", p.username,
           "-d", p.dbname, "-f", p.backup_file>>
    ELSE <<"pg_restore", "-h", p.host, "-p", IntToStr(p.port),
           "-U", p.username, "-d", p.dbname, "-v", p.backup_file>>

\* a slip that drops check=True: no return code raises
SucceededUnchecked(rc) == TRUE

\* subprocess.run(..., check=True) returns normally
Succeeded(rc) == rc = 0

\* what pg_dump leaves at the -f path when it exits 0
PgDumpArtifactKind(argv) ==
    IF \E i \in 1..(Len(argv) - 1) : argv[i] = "-F" /\ argv[i + 1] = "d"
    THEN "dir"
    ELSE "file"

LogEntry(level, text) == [level |-> level, text |-> text]

(***************************************************************************)
(* State machine                                                           *)
(***************************************************************************)
Connections ==
    [host : Hosts, port : Ports, username : Usernames, dbname : Dbnames,
     password : Passwords]

BackupInputs ==
    {[host |-> c.host, port |-> c.port, username |-> c.username,
      dbname |-> c.dbname, password |-> c.password,
      backup_dir |-> d, dump_format |-> f] :
        c \in Connections, d \in BackupDirs, f \in DumpFormats}

RestoreInputs ==
    {[host |-> c.host, port |-> c.port, username |-> c.username,
      dbname |-> c.dbname, password |-> c.password, backup_file |-> b] :
        c \in Connections, b \in BackupFiles}

Init ==
    /\ pc = "start"
    /\ op \in {"backup", "restore"}
    /\ osEnviron \in Environs
    /\ \/ /\ op = "backup"
          /\ inp \in BackupInputs
          /\ now \in Nows
          /\ rootKind \in Kinds
          /\ parentWritable \in BOOLEAN
          /\ artifactKind = "absent"
       \/ /\ op = "restore"
          /\ inp \in RestoreInputs
          /\ now = CHOOSE t \in Nows : t.Y = 2024
          /\ rootKind = "dir"
          /\ parentWritable = TRUE
          /\ artifactKind \in Kinds
    /\ backup_path = ""
    /\ env = <<>>
    /\ cmd = <<>>
    /\ log = <<>>
    /\ echo = <<>>
    /\ mkdirs = <<>>
    /\ spawned = <<>>
    /\ child = "none"
    /\ status = -1
    /\ exc = ""
    /\ exitCode = -1

\* backup(), lines 63-77: path, makedirs, early return
BackupResolve ==
    /\ pc = "start"
    /\ op = "backup"
    /\ backup_path' = BackupPath(inp, Strftime(now))
    /\ mkdirs' = Append(mkdirs, inp.backup_dir)
    /\ LET e == MakedirsError(rootKind, parentWritable, inp.backup_dir) IN
         IF e = ""
         THEN /\ rootKind' = "dir"
              /\ log' = Append(log, LogEntry("INFO",
                            "Backup directory ensured: " \o inp.backup_dir))
              /\ pc' = "plan"
              /\ exitCode' = exitCode
         ELSE /\ rootKind' = rootKind
              /\ log' = Append(log, LogEntry("ERROR",
                            "Failed to create backup directory: " \o e))
              /\ pc' = MkdirFailedNext
              /\ exitCode' = IF MkdirFailedNext = "done" THEN 0 ELSE exitCode
    /\ UNCHANGED <<op, inp, now, parentWritable, artifactKind, osEnviron, env,
                   cmd, echo, spawned, child, status, exc>>

\* backup(), lines 79-108: environment, argument list, debug line
BackupPlan ==
    /\ pc = "plan"
    /\ op = "backup"
    /\ env' = InjectPassword(osEnviron, inp.password)
    /\ cmd' = BackupCmd(inp, backup_path)
    /\ log' = Append(log, LogEntry("DEBUG",
                  "Running command: " \o Join(" ", cmd')))
    /\ pc' = "spawn"
    /\ UNCHANGED <<op, inp, now, rootKind, parentWritable, artifactKind,
                   osEnviron, backup_path, echo, mkdirs, spawned, child,
                   status, exc, exitCode>>

\* restore(), lines 134-172: environment, tool selection, debug line
RestorePlan ==
    /\ pc = "start"
    /\ op = "restore"
    /\ env' = InjectPassword(osEnviron, inp.password)
    /\ cmd' = RestoreCmd(inp, IsDir(artifactKind))
    /\ log' = Append(log, LogEntry("DEBUG",
                  "Running command: " \o Join(" ", cmd')))
    /\ pc' = "spawn"
    /\ UNCHANGED <<op, inp, now, rootKind, parentWritable, artifactKind,
                   osEnviron, backup_path, echo, mkdirs, spawned, child,
                   status, exc, exitCode>>

\* subprocess.run starts the child
LaunchOk ==
    /\ pc = "spawn"
    /\ spawned' = Append(spawned, [argv |-> cmd, env |-> env])
    /\ child' = "running"
    /\ pc' = "wait"
    /\ UNCHANGED <<op, inp, now, rootKind, parentWritable, artifactKind,
                   osEnviron, backup_path, env, cmd, log, echo, mkdirs,
                   status, exc, exitCode>>

\* subprocess.run cannot start the child: the OSError is caught by neither
\* except clause, leaves the command and ends the process with a traceback
LaunchFails ==
    /\ pc = "spawn"
    /\ \E e \in LaunchErrors : exc' = e \o ReprStr(cmd[1])
    /\ pc' = "escaped"
    /\ exitCode' = 1
    /\ UNCHANGED <<op, inp, now, rootKind, parentWritable, artifactKind,
                   osEnviron, backup_path, env, cmd, log, echo, mkdirs,
                   spawned, child, status>>

\* the child ends with a return code
ChildExit ==
    /\ pc = "wait"
    /\ \E rc \in ExitStatuses :
         /\ status' = rc
         /\ artifactKind' = IF op = "backup" /\ rc = 0
                            THEN PgDumpArtifactKind(cmd)
                            ELSE artifactKind
    /\ child' = "exited"
    /\ pc' = "report"
    /\ UNCHANGED <<op, inp, now, rootKind, parentWritable, osEnviron,
                   backup_path, env, cmd, log, echo, mkdirs, spawned, exc,
                   exitCode>>

\* Ctrl-C while subprocess.run waits: it kills the child and re-raises
\* KeyboardInterrupt, which no except clause of the command catches
Interrupt ==
    /\ pc = "wait"
    /\ child' = "killed"
    /\ exc' = "KeyboardInterrupt"
    /\ pc' = "escaped"
    /\ exitCode' = 1
    /\ UNCHANGED <<op, inp, now, rootKind, parentWritable, artifactKind,
                   osEnviron, backup_path, env, cmd, log, echo, mkdirs,
                   spawned, status>>

\* backup(), lines 110-115: the two reports, then the function returns
BackupReport ==
    /\ pc = "report"
    /\ op = "backup"
    /\ IF Succeeded(status)
       THEN LET text == "Backup completed successfully. Backup file/directory: "
                            \o backup_path IN
              /\ log' = Append(log, LogEntry("INFO", text))
              /\ echo' = Append(echo, text)
       ELSE LET text == "Backup failed: "
                            \o CalledProcessErrorStr(cmd, status) IN
              /\ log' = Append(log, LogEntry("ERROR", text))
              /\ echo' = Append(echo, text)
    /\ pc' = "done"
    /\ exitCode' = 0
    /\ UNCHANGED <<op, inp, now, rootKind, parentWritable, artifactKind,
                   osEnviron, backup_path, env, cmd, mkdirs, spawned, child,
                   status, exc>>

\* restore(), lines 174-179
RestoreReport ==
    /\ pc = "report"
    /\ op = "restore"
    /\ IF Succeeded(status)
       THEN LET text == "Restore completed successfully." IN
              /\ log' = Append(log, LogEntry("INFO", text))
              /\ echo' = Append(echo, text)
       ELSE LET text == "Restore failed: "
                            \o CalledProcessErrorStr(cmd, status) IN
              /\ log' = Append(log, LogEntry("ERROR", text))
              /\ echo' = Append(echo, text)
    /\ pc' = "done"
    /\ exitCode' = 0
    /\ UNCHANGED <<op, inp, now, rootKind, parentWritable, artifactKind,
                   osEnviron, backup_path, env, cmd, mkdirs, spawned, child,
                   status, exc>>

Next ==
    \/ BackupResolve
    \/ BackupPlan
    \/ RestorePlan
    \/ LaunchOk
    \/ LaunchFails
    \/ ChildExit
    \/ Interrupt
    \/ BackupReport
    \/ RestoreReport

Spec == Init /\ [][Next]_vars

TypeOK ==
    /\ pc \in {"start", "plan", "spawn", "wait", "report", "done", "escaped"}
    /\ op \in {"backup", "restore"}
    /\ child \in {"none", "running", "exited", "killed"}
    /\ status \in ExitStatuses \cup {-1}
    /\ exitCode \in {-1, 0, 1}
    /\ Len(spawned) <= 1

\* with weak fairness every invocation runs to its end
FairSpec == Spec /\ WF_vars(Next)

Terminal == pc \in {"done", "escaped"}

Terminates == <>Terminal

(***************************************************************************)
(* Vocabulary of the properties                                            *)
(***************************************************************************)
\* str(port), written out for the ports of the model
ExpectedPortText(port) == IF port = 5432 THEN "5432" ELSE "15432"

\* the strftime text, written out for the clock readings of the model
ExpectedStamp(t) == IF t.Y = 2024 THEN "20240101_120000" ELSE "20251130_090559"

ExtensionTable == [c |-> ".dump", d |-> "", t |-> ".tar", p |-> ".sql"]

FlagLiterals ==
    {"pg_dump", "pg_restore", "psql", "-h", "-p", "-U", "-F", "-b", "-v",
     "-f", "-d"}

\* every string the command is allowed to carry: the other options, the
\* artifact path and the fixed words
OtherArguments ==
    {inp.host, ExpectedPortText(inp.port), inp.username, inp.dbname}
        \cup FlagLiterals
        \cup (IF op = "backup" THEN {inp.dump_format, backup_path}
              ELSE {inp.backup_file})

ConnectionFlags ==
    <<"-h", inp.host, "-p", ExpectedPortText(inp.port), "-U", inp.username>>

IsSuccessText(text) == Contains(text, "completed successfully")

IsFailureText(text) ==
    StartsWith(text, "Backup failed: ") \/ StartsWith(text, "Restore failed: ")
        \/ StartsWith(text, "Failed to create backup directory: ")

SuccessReports == {i \in DOMAIN log : IsSuccessText(log[i].text)}

FailureReports ==
    {i \in DOMAIN log : log[i].level = "ERROR" /\ IsFailureText(log[i].text)}

MkdirFailed ==
    /\ op = "backup"
    /\ pc # "start"
    /\ MakedirsError(rootKind, parentWritable, inp.backup_dir) # ""

MissingArtifactNeverSpawns ==
    (op = "restore" /\ artifactKind = "absent") => spawned = <<>>

(***************************************************************************)
(* C3: when the external program cannot be started, the command ends with  *)
(* a failure report (an ERROR log entry and a console message), as it does *)
(* for a non-zero exit, and no exception leaves the command.               *)
(***************************************************************************)
LaunchFailureIsReported ==
    (Terminal /\ cmd # <<>> /\ spawned = <<>>) =>
        /\ pc = "done"
        /\ exc = ""
        /\ FailureReports # {}
        /\ echo # <<>>

(***************************************************************************)
(* C4: every finished invocation has made exactly one terminal report, and *)
(* the exit status of the process tells failure from success: 0 after a    *)
(* success report, not 0 after a failure.                                  *)
(***************************************************************************)
OneReportWithExitSignal ==
    Terminal =>
        /\ Cardinality(SuccessReports) + Cardinality(FailureReports) = 1
        /\ SuccessReports # {} => exitCode = 0
        /\ (MkdirFailed \/ status > 0) => exitCode # 0

(***************************************************************************)
(* C5: after a failed creation of the backup root, backup has ended with   *)
(* an error entry, has built and started no command, and has reported no   *)
(* success.                                                                *)
(***************************************************************************)
FailedMkdirStopsBackup ==
    MkdirFailed =>
        /\ pc = "done"
        /\ cmd = <<>>
        /\ spawned = <<>>
        /\ child = "none"
        /\ SuccessReports = {}
        /\ \A i \in DOMAIN echo : ~IsSuccessText(echo[i])
        /\ log[Len(log)].level = "ERROR"

FailedMkdirStopsBackupWitness ==
    /\ MkdirFailed
    /\ rootKind = "absent"
    /\ ~parentWritable
    /\ mkdirs = <<inp.backup_dir>>
    /\ pc = "done"

(***************************************************************************)
(* C6: restore picks its tool from the artifact alone, first match wins:   *)
(* a directory (whatever its name) goes to pg_restore -v with the path as  *)
(* the only positional argument and no -f; otherwise a path ending in .sql *)
(* goes to psql -f <path> without -v; anything else goes to pg_restore -v  *)
(* with the path last.                                                     *)
(***************************************************************************)
RestoreToolSelection ==
    (op = "restore" /\ pc # "start") =>
        LET f == inp.backup_file
            target == ConnectionFlags \o <<"-d", inp.dbname>>
        IN  /\ IF artifactKind = "dir"
               THEN /\ cmd = <<"pg_restore">> \o target \o <<"-v", f>>
                    /\ "-f" \notin Range(cmd)
               ELSE IF EndsWith(f, ".sql")
               THEN /\ cmd = <<"psql">> \o target \o <<"-f", f>>
                    /\ "-v" \notin Range(cmd)
               ELSE cmd = <<"pg_restore">> \o target \o <<"-v", f>>
            /\ (f = "./dump.sql" /\ artifactKind # "dir" /\ inp.host = "db1"
                  /\ inp.port = 5432 /\ inp.username = "alice"
                  /\ inp.dbname = "orders") =>
                  cmd = <<"psql", "-h", "db1", "-p", "5432", "-U", "alice",
                          "-d", "orders", "-f", "./dump.sql">>
            /\ (f = "./backups/backup_orders_20240101_120000"
                  /\ artifactKind = "dir" /\ inp.host = "db1"
                  /\ inp.port = 5432 /\ inp.username = "alice"
                  /\ inp.dbname = "orders") =>
                  cmd = <<"pg_restore", "-h", "db1", "-p", "5432", "-U",
                          "alice", "-d", "orders", "-v",
                          "./backups/backup_orders_20240101_120000">>

RestoreToolSelectionWitness ==
    /\ op = "restore"
    /\ inp.backup_file = "./dump.sql"
    /\ artifactKind = "dir"
    /\ spawned # <<>>
    /\ spawned[1].argv[1] = "pg_restore"
    /\ spawned[1].argv[Len(spawned[1].argv)] = "./dump.sql"

(***************************************************************************)
(* C7: the pg_dump argument list is -h host -p port -U user -F format,     *)
(* then -b exactly when the format is not d, then -v -f path dbname.       *)
(***************************************************************************)
BackupArgumentList ==
    (op = "backup" /\ pc \notin {"start", "plan"} /\ ~MkdirFailed) =>
        /\ cmd = <<"pg_dump">> \o ConnectionFlags
                    \o <<"-F", inp.dump_format>>
                    \o (IF inp.dump_format # "d" THEN <<"-b">> ELSE <<>>)
                    \o <<"-v", "-f", backup_path, inp.dbname>>
        /\ ("-b" \in Range(cmd)) <=> (inp.dump_format # "d")
        /\ cmd[Len(cmd)] = inp.dbname
        /\ (inp.host = "localhost" /\ inp.port = 5432
              /\ inp.username = "alice" /\ inp.dbname = "orders"
              /\ inp.backup_dir = "./backups" /\ inp.dump_format = "c"
              /\ now.Y = 2024) =>
              cmd = <<"pg_dump", "-h", "localhost", "-p", "5432", "-U",
                      "alice", "-F", "c", "-b", "-v", "-f",
                      "./backups/backup_orders_20240101_120000.dump",
                      "orders">>

BackupArgumentListWitness ==
    /\ op = "backup"
    /\ spawned # <<>>
    /\ spawned[1].argv =
          <<"pg_dump", "-h", "localhost", "-p", "5432", "-U", "alice", "-F",
            "c", "-b", "-v", "-f",
            "./backups/backup_orders_20240101_120000.dump", "orders">>

ExitStatusDecidesReport ==
    /\ Len(spawned) <= 1
    /\ (pc = "done" /\ child = "exited") =>
         LET last == log[Len(log)] IN
           /\ Len(echo) = 1
           /\ echo[1] = last.text
           /\ IF status = 0
              THEN /\ last.level = "INFO"
                   /\ IsSuccessText(last.text)
                   /\ FailureReports = {}
                   /\ \A i \in DOMAIN log : log[i].level # "ERROR"
              ELSE /\ last.level = "ERROR"
                   /\ IsFailureText(last.text)
                   /\ EndsWith(last.text, "returned non-zero exit status "
                                             \o DigitChar(status) \o ".")
                   /\ SuccessReports = {}

ExitStatusDecidesReportWitness ==
    /\ op = "restore"
    /\ pc = "done"
    /\ status = 2
    /\ Len(spawned) = 1
    /\ EndsWith(echo[1], "returned non-zero exit status 2.")

(***************************************************************************)
(* C10: an interrupt while the child runs ends the operation with a        *)
(* reported failure.                                                       *)
(***************************************************************************)
InterruptIsReportedAsFailure ==
    child = "killed" =>
        /\ Terminal
        /\ FailureReports # {}
        /\ echo # <<>>

====
